---- MODULE Spec2Model ----
(***************************************************************************)
(* ABAC policy engine (apps/abac/engine.py): PolicyEngine.__init__,        *)
(* check_access and the helpers it calls, over a store of Policy,          *)
(* UserPolicy, GroupPolicy and PolicyLog rows shared by several tenants.   *)
(***************************************************************************)
EXTENDS Integers, Sequences, FiniteSets, TLC

VARIABLES
    policies,       \* Policy table: policy id -> row
    userPolicies,   \* UserPolicy table: set of rows
    groupPolicies,  \* GroupPolicy table: set of rows
    employee,       \* directory: user -> employee profile, or NoEmployee
    currentOrg,     \* ambient current-organization context (a tenant or NULL)
    repoDown,       \* TRUE while reads of the policy tables raise
    logs,           \* PolicyLog table, in insertion order
    proc            \* per caller: its engine instance and its check_access call

dbVars == <<policies, userPolicies, groupPolicies>>
envVars == <<employee, currentOrg, repoDown>>
vars == <<policies, userPolicies, groupPolicies, employee, currentOrg,
          repoDown, logs, proc>>

----------------------------------------------------------------------------
(* Values *)

NULL == "<None>"          \* Python None
EMPTY == ""               \* the empty string
MISSING == "<missing>"    \* a key that is absent from an attribute map

ALLOW == "allow"
DENY == "deny"

Tenants == {"orgA", "orgB"}
Users == {"root", "admin", "alice"}
PolicyIds == {"P1", "P2"}
Procs == {"p1"}

\* Falsy values of Python's truth test on an Optional[str].
Truthy(s) == s /= NULL /\ s /= EMPTY

\* Policy.actions: None, or a list of action names (possibly empty).
ActionsNone == [isnone |-> TRUE, items |-> {}]
ActionsOf(S) == [isnone |-> FALSE, items |-> S]
TruthyActions(a) == ~a.isnone /\ a.items /= {}

\* The user objects handed to the engine.
UserTable ==
    [u \in Users |->
        CASE u = "root"  -> [id |-> u, is_superuser |-> TRUE,  is_org_admin |-> FALSE, organization |-> NULL]
          [] u = "admin" -> [id |-> u, is_superuser |-> FALSE, is_org_admin |-> TRUE,  organization |-> "orgA"]
          [] OTHER       -> [id |-> u, is_superuser |-> FALSE, is_org_admin |-> FALSE, organization |-> "orgA"]]

NoEmployee == [exists |-> FALSE, department |-> NULL, location |-> NULL,
               job_level |-> NULL, employment_type |-> NULL]

----------------------------------------------------------------------------
(* Attribute extraction *)

\* A snapshot that takes a subject without employee profile for full-time
\* staff of no department.
GetSubjectAttributesOfStaff(engine, emp) ==
    LET u == UserTable[engine.user] IN
    [user_id |-> u.id,
     is_superuser |-> u.is_superuser,
     is_org_admin |-> u.is_org_admin,
     organization_id |-> engine.organization,
     department |-> IF emp.exists THEN emp.department ELSE NULL,
     location |-> IF emp.exists THEN emp.location ELSE NULL,
     job_level |-> IF emp.exists THEN emp.job_level ELSE NULL,
     employment_type |-> IF emp.exists THEN emp.employment_type
                         ELSE "full_time"]

\* _get_subject_attributes: the snapshot of the user and of the directory.
\* Employee keys are absent (MISSING) when the user has no employee profile.
GetSubjectAttributes(engine, emp) ==
    LET u == UserTable[engine.user] IN
    [user_id |-> u.id,
     is_superuser |-> u.is_superuser,
     is_org_admin |-> u.is_org_admin,
     organization_id |-> engine.organization,
     department |-> IF emp.exists THEN emp.department ELSE MISSING,
     location |-> IF emp.exists THEN emp.location ELSE MISSING,
     job_level |-> IF emp.exists THEN emp.job_level ELSE MISSING,
     employment_type |-> IF emp.exists THEN emp.employment_type ELSE MISSING]

\* dict.get(key): None for an absent key.
DictGet(v) == IF v = MISSING THEN NULL ELSE v

\* _get_environment_attributes: derived from the clock (weekday() >= 5).
GetEnvironmentAttributes(weekday) == [is_weekend |-> weekday >= 5]

----------------------------------------------------------------------------
(* Rule evaluation (Policy.evaluate and PolicyRule, apps/abac/models.py) *)

\* An attribute path is <<namespace, key>>; the value it resolves to, or
\* MISSING.
ResolvePath(path, subject_attrs, resource_attrs, environment_attrs) ==
    CASE path = <<"subject", "department">> -> subject_attrs.department
      [] path = <<"subject", "employment_type">> -> subject_attrs.employment_type
      [] path = <<"resource", "owner">> -> resource_attrs.owner
      [] OTHER -> MISSING

\* One rule: a missing attribute fails every operator but not_equals and
\* not_in.
RuleHolds(rule, subject_attrs, resource_attrs, environment_attrs) ==
    LET v == ResolvePath(rule.attribute_path, subject_attrs, resource_attrs,
                         environment_attrs) IN
    CASE rule.operator = "equals"     -> v /= MISSING /\ v = rule.value
      [] rule.operator = "not_equals" -> v = MISSING \/ v /= rule.value
      [] OTHER -> FALSE

\* Policy.evaluate: every active rule holds; no active rule matches always.
PolicyEvaluate(policy, subject_attrs, resource_attrs, action, environment_attrs) ==
    \A rule \in policy.rules :
        rule.is_active =>
            RuleHolds(rule, subject_attrs, resource_attrs, environment_attrs)

----------------------------------------------------------------------------
(* Policy resolution *)

\* A resolver that tests no validity window, of the row or of the policy.
ActiveUserPoliciesAnyWindow(engine, ups, pols) ==
    {pols[up.policy] : up \in
        {r \in ups : /\ r.user = engine.user
                     /\ r.organization = engine.organization
                     /\ r.is_active
                     /\ pols[r.policy].is_active}}

\* A resolver that answers from the UserPolicy table as it was when the
\* process started, before any assignment.
ActiveUserPoliciesAtStart(engine, ups, pols) == {}

\* A UserPolicy query without the organization filter.
UserPolicyRowsAnyTenant(engine, ups) ==
    {up \in ups : up.user = engine.user /\ up.is_active}

\* The UserPolicy query of _get_applicable_policies: rows of this user and
\* of the engine's organization that are active.
UserPolicyRows(engine, ups) ==
    {up \in ups : /\ up.user = engine.user
                  /\ up.organization = engine.organization
                  /\ up.is_active}

\* active_user_policies: the policy objects of the rows that are valid now
\* and whose policy is active and valid now.
ActiveUserPolicies(engine, ups, pols) ==
    {pols[up.policy] : up \in
        {r \in UserPolicyRows(engine, ups) :
            r.valid /\ pols[r.policy].is_active /\ pols[r.policy].valid}}

\* A GroupPolicy query scoped by the ambient organization of the moment.
ActiveGroupsOfAmbient(engine, gps) ==
    {g \in gps : g.organization = currentOrg /\ g.is_active}

\* The GroupPolicy query of _get_group_policies.
ActiveGroups(engine, gps) ==
    {g \in gps : g.organization = engine.organization /\ g.is_active}

\* A membership test every group passes.
GroupMatchesAlways(group, subject_attrs) == TRUE

\* The membership test of one group: the subject's attribute named by
\* group_type equals group_value; other group types match nobody.
GroupMatches(group, subject_attrs) ==
    CASE group.group_type = "department" ->
            DictGet(subject_attrs.department) = group.group_value
      [] group.group_type = "location" ->
            DictGet(subject_attrs.location) = group.group_value
      [] group.group_type = "job_level" ->
            DictGet(subject_attrs.job_level) = group.group_value
      [] group.group_type = "employment_type" ->
            DictGet(subject_attrs.employment_type) = group.group_value
      [] OTHER -> FALSE

\* _get_group_policies: the active policies of every matching active group.
GetGroupPolicies(engine, subject_attrs, gps, pols) ==
    {pols[id] : id \in
        {i \in PolicyIds :
            /\ pols[i].is_active
            /\ \E g \in ActiveGroups(engine, gps) :
                  GroupMatches(g, subject_attrs) /\ i \in g.policies}}

\* A union that keeps two objects of one policy when their fields differ.
AllPoliciesByValue(user_policies, group_policies) ==
    user_policies \cup group_policies

\* list(set(active_user_policies + group_policies)): one object per policy
\* id, the first occurrence kept.
AllPolicies(user_policies, group_policies) ==
    user_policies \cup
        {g \in group_policies : \A u \in user_policies : u.id /= g.id}

\* Filters without the test of the action.
PassesFiltersAnyAction(policy, resource_type, action, resource_id) ==
    /\ ~(Truthy(policy.resource_type) /\ policy.resource_type /= resource_type)
    /\ ~(/\ Truthy(policy.resource_id)
         /\ Truthy(resource_id)
         /\ policy.resource_id /= resource_id)

\* Filters without the test of the resource instance.
PassesFiltersAnyInstance(policy, resource_type, action, resource_id) ==
    /\ ~(Truthy(policy.resource_type) /\ policy.resource_type /= resource_type)
    /\ ~(TruthyActions(policy.actions) /\ action \notin policy.actions.items)

\* Filters in which an unset resource_type matches no request.
PassesFiltersExactType(policy, resource_type, action, resource_id) ==
    /\ policy.resource_type = resource_type
    /\ ~(TruthyActions(policy.actions) /\ action \notin policy.actions.items)
    /\ ~(/\ Truthy(policy.resource_id)
         /\ Truthy(resource_id)
         /\ policy.resource_id /= resource_id)

\* The three filters of _get_applicable_policies.
PassesFilters(policy, resource_type, action, resource_id) ==
    /\ ~(Truthy(policy.resource_type) /\ policy.resource_type /= resource_type)
    /\ ~(TruthyActions(policy.actions) /\ action \notin policy.actions.items)
    /\ ~(/\ Truthy(policy.resource_id)
         /\ Truthy(resource_id)
         /\ policy.resource_id /= resource_id)

Applicable(all_policies, resource_type, action, resource_id) ==
    {p \in all_policies : PassesFilters(p, resource_type, action, resource_id)}

\* The applicable list left in the order of the set iteration, unsorted.
UnsortedOrders(S) ==
    {seq \in [1..Cardinality(S) -> S] :
        \A i, j \in 1..Cardinality(S) : i /= j => seq[i] /= seq[j]}

\* applicable.sort(key=priority, reverse=True): the orders the sort can
\* return (the order of equal priorities is that of the set iteration).
SortedByPriority(S) ==
    {seq \in [1..Cardinality(S) -> S] :
        /\ \A i, j \in 1..Cardinality(S) : i /= j => seq[i] /= seq[j]
        /\ \A i, j \in 1..Cardinality(S) :
              i < j => seq[i].priority >= seq[j].priority}

----------------------------------------------------------------------------
(* Policy evaluation *)

\* A loop that takes every policy of the list as matched.
MatchedAll(pols, subject_attrs, resource_attrs, action, environment_attrs) ==
    pols

\* The policies of the list whose rules match, in list order.
Matched(pols, subject_attrs, resource_attrs, action, environment_attrs) ==
    SelectSeq(pols, LAMBDA p :
        PolicyEvaluate(p, subject_attrs, resource_attrs, action, environment_attrs))

IsDeny(p) == p.effect = DENY
IsNotDeny(p) == p.effect /= DENY

\* A reason that names only the first policy of a partition.
NamesOfFirst(pols) == IF pols = <<>> THEN <<>> ELSE <<pols[1].name>>

Names(pols) == [i \in 1..Len(pols) |-> pols[i].name]

\* A verdict that lets an empty policy list through.
VerdictAllowsEmpty(pols, deny_policies, allow_policies, evaluated_ids) ==
    [decision |-> deny_policies = <<>>,
     reason |-> [kind |-> IF deny_policies /= <<>> THEN "denied_by"
                          ELSE "allowed_by",
                 names |-> Names(deny_policies \o allow_policies)],
     evaluated |-> evaluated_ids]

\* A verdict that looks at the ALLOW matches before the DENY matches.
VerdictAllowFirst(pols, deny_policies, allow_policies, evaluated_ids) ==
    IF pols = <<>>
    THEN [decision |-> FALSE,
          reason |-> [kind |-> "no_applicable", names |-> <<>>],
          evaluated |-> <<>>]
    ELSE IF allow_policies /= <<>>
    THEN [decision |-> TRUE,
          reason |-> [kind |-> "allowed_by", names |-> Names(allow_policies)],
          evaluated |-> evaluated_ids]
    ELSE [decision |-> FALSE,
          reason |-> [kind |-> IF deny_policies /= <<>> THEN "denied_by"
                               ELSE "no_matching",
                      names |-> Names(deny_policies)],
          evaluated |-> evaluated_ids]

\* A verdict that allows when policies apply but none matches.
VerdictDefaultAllow(pols, deny_policies, allow_policies, evaluated_ids) ==
    IF pols = <<>>
    THEN [decision |-> FALSE,
          reason |-> [kind |-> "no_applicable", names |-> <<>>],
          evaluated |-> <<>>]
    ELSE [decision |-> deny_policies = <<>>,
          reason |-> [kind |-> IF deny_policies /= <<>> THEN "denied_by"
                               ELSE "allowed_by",
                      names |-> Names(deny_policies \o allow_policies)],
          evaluated |-> evaluated_ids]

\* A verdict taken from the first matched policy of the list, the one of
\* the highest priority.
VerdictFirstMatch(pols, deny_policies, allow_policies, evaluated_ids) ==
    LET First(x) == CHOOSE i \in 1..Len(pols) :
                        pols[i] = x /\ \A j \in 1..(i - 1) : pols[j] /= x
    IN  IF pols = <<>>
        THEN [decision |-> FALSE,
              reason |-> [kind |-> "no_applicable", names |-> <<>>],
              evaluated |-> <<>>]
        ELSE IF deny_policies = <<>> /\ allow_policies = <<>>
        THEN [decision |-> FALSE,
              reason |-> [kind |-> "no_matching", names |-> <<>>],
              evaluated |-> evaluated_ids]
        ELSE IF allow_policies = <<>>
                \/ (/\ deny_policies /= <<>>
                    /\ First(deny_policies[1]) < First(allow_policies[1]))
        THEN [decision |-> FALSE,
              reason |-> [kind |-> "denied_by", names |-> Names(deny_policies)],
              evaluated |-> evaluated_ids]
        ELSE [decision |-> TRUE,
              reason |-> [kind |-> "allowed_by", names |-> Names(allow_policies)],
              evaluated |-> evaluated_ids]

\* The return statements of _evaluate_policies (lines 228-229 and 249-263):
\* no policy at all, a matched DENY, a matched ALLOW, or nothing matched.
Verdict(pols, deny_policies, allow_policies, evaluated_ids) ==
    IF pols = <<>>
    THEN [decision |-> FALSE,
          reason |-> [kind |-> "no_applicable", names |-> <<>>],
          evaluated |-> <<>>]
    ELSE IF deny_policies /= <<>>
    THEN [decision |-> FALSE,
          reason |-> [kind |-> "denied_by", names |-> Names(deny_policies)],
          evaluated |-> evaluated_ids]
    ELSE IF allow_policies /= <<>>
    THEN [decision |-> TRUE,
          reason |-> [kind |-> "allowed_by", names |-> Names(allow_policies)],
          evaluated |-> evaluated_ids]
    ELSE [decision |-> FALSE,
          reason |-> [kind |-> "no_matching", names |-> <<>>],
          evaluated |-> evaluated_ids]

\* _evaluate_policies: (decision, reason, evaluated ids).
EvaluatePolicies(pols, subject_attrs, resource_attrs, action, environment_attrs) ==
    LET matched == Matched(pols, subject_attrs, resource_attrs, action,
                           environment_attrs)
    IN  Verdict(pols, SelectSeq(matched, IsDeny), SelectSeq(matched, IsNotDeny),
                [i \in 1..Len(pols) |-> pols[i].id])

----------------------------------------------------------------------------
(* State of a caller: the engine it constructed and its check_access call *)

MaxLogs == 1
MaxUserPolicies == 1
MaxGroupPolicies == 1

NoEngine == [exists |-> FALSE, user |-> NULL, organization |-> NULL,
             log_decisions |-> FALSE]
NoCtor == [user |-> NULL, organization |-> NULL, raised |-> NULL]
NoRequest == [resource_type |-> NULL, action |-> NULL,
              resource_attrs |-> [owner |-> MISSING], resource_id |-> NULL]
NoAttrs == [user_id |-> NULL, is_superuser |-> FALSE, is_org_admin |-> FALSE,
            organization_id |-> NULL, department |-> MISSING,
            location |-> MISSING, job_level |-> MISSING,
            employment_type |-> MISSING]
NoEnv == [is_weekend |-> FALSE]
NoReason == [kind |-> "none", names |-> <<>>]

\* A call that has not started: nothing read, nothing decided.
NoCall == [pc |-> "idle", req |-> NoRequest, subject_attrs |-> NoAttrs,
           group_attrs |-> NoAttrs, environment_attrs |-> NoEnv,
           user_policies |-> {}, policies |-> <<>>, decision |-> FALSE,
           reason |-> NoReason, evaluated |-> <<>>, result |-> FALSE,
           raised |-> NULL, reads |-> {}, audit |-> "none"]

\* Between calls: no check_access of this caller is running.
AtRest(p) == proc[p].call.pc \in {"idle", "done", "error"}

----------------------------------------------------------------------------
(* PolicyEngine.__init__ *)

\* A constructor without the organization check.
ConstructFailsNever(u, organization) == FALSE

\* Line 29: no organization and not a superuser.
ConstructFails(u, organization) ==
    organization = NULL /\ ~UserTable[u].is_superuser

\* The engine binds get_current_organization(); a non-superuser without one
\* gets PermissionDenied and no instance.
Construct(p, u, log_decisions) ==
    /\ ~proc[p].engine.exists
    /\ LET organization == currentOrg
           fails == ConstructFails(u, organization)
       IN  proc' = [proc EXCEPT ![p] =
              [engine |-> IF fails THEN NoEngine
                          ELSE [exists |-> TRUE, user |-> u,
                                organization |-> organization,
                                log_decisions |-> log_decisions],
               ctor |-> [user |-> u, organization |-> organization,
                         raised |-> IF fails THEN "PermissionDenied" ELSE NULL],
               call |-> NoCall]]
    /\ UNCHANGED <<dbVars, envVars, logs>>

\* The caller drops its engine instance.
Discard(p) ==
    /\ proc[p].engine.exists
    /\ AtRest(p)
    /\ proc' = [proc EXCEPT ![p] =
          [engine |-> NoEngine, ctor |-> NoCtor, call |-> NoCall]]
    /\ UNCHANGED <<dbVars, envVars, logs>>

----------------------------------------------------------------------------
(* PolicyEngine.check_access, one action per store access *)

\* check_access without the superuser bypass.
SuperuserBypassNever(engine) == FALSE

\* check_access without the organization-admin bypass.
OrgAdminBypassNever(subject_attrs) == FALSE

\* Line 49: superusers bypass ABAC.
SuperuserBypass(engine) == UserTable[engine.user].is_superuser

\* Line 55: organization admins bypass the policies.
OrgAdminBypass(subject_attrs) == subject_attrs.is_org_admin

\* Lines 48-58: the superuser bypass, the subject snapshot, the
\* organization-admin bypass, the resource and environment snapshots.
CheckAccessBegin(p, req, weekday) ==
    /\ proc[p].engine.exists
    /\ AtRest(p)
    /\ Len(logs) < MaxLogs
    /\ LET engine == proc[p].engine
           subject_attrs == GetSubjectAttributes(engine, employee[engine.user])
           started == [NoCall EXCEPT !.req = req]
       IN  proc' = [proc EXCEPT ![p].call =
              IF SuperuserBypass(engine)
              THEN [started EXCEPT !.pc = "done", !.result = TRUE]
              ELSE IF OrgAdminBypass(subject_attrs)
              THEN [started EXCEPT !.pc = "done", !.result = TRUE,
                                   !.subject_attrs = subject_attrs]
              ELSE [started EXCEPT !.pc = "user_policies",
                                   !.subject_attrs = subject_attrs,
                                   !.environment_attrs =
                                       GetEnvironmentAttributes(weekday)]]
    /\ UNCHANGED <<dbVars, envVars, logs>>

\* Queries that swallow the error of a failing store.
QueryRaisesNever(down) == FALSE

\* Lines 151-163 and 192-209: no handler surrounds the queries of
\* _get_applicable_policies and _get_group_policies nor their call in
\* check_access, so the error of a failing store leaves check_access.
QueryRaises(down) == down

\* Lines 151-163: the UserPolicy query and the validity filter. A failing
\* store raises out of check_access.
ReadUserPolicies(p) ==
    /\ proc[p].call.pc = "user_policies"
    /\ proc' = [proc EXCEPT ![p].call =
          IF QueryRaises(repoDown)
          THEN [@ EXCEPT !.pc = "error", !.raised = "DatabaseError"]
          ELSE [@ EXCEPT !.pc = "group_policies",
                         !.reads = @ \cup {"UserPolicy"},
                         !.user_policies =
                             ActiveUserPolicies(proc[p].engine, userPolicies,
                                                policies)]]
    /\ UNCHANGED <<dbVars, envVars, logs>>

\* The decision of lines 64-70 for a sorted applicable list.
Decide(call, applicable) ==
    EvaluatePolicies(applicable, call.subject_attrs, call.req.resource_attrs,
                     call.req.action, call.environment_attrs)

\* Lines 60-70 as a function of the tables: the decision of the call over
\* the UserPolicy rows ups and the GroupPolicy rows gps.
DecisionOn(engine, call, ups, gps) ==
    LET group_attrs == GetSubjectAttributes(engine, employee[engine.user])
        all_policies ==
            AllPolicies(ActiveUserPolicies(engine, ups, policies),
                        GetGroupPolicies(engine, group_attrs, gps, policies))
        applicable_set == Applicable(all_policies, call.req.resource_type,
                                     call.req.action, call.req.resource_id)
    IN  Decide(call, CHOOSE seq \in SortedByPriority(applicable_set) : TRUE).decision

\* Lines 166-185 and 64-70: the second subject snapshot, the GroupPolicy
\* query, the union, the filters, the sort and the evaluation.
ReadGroupPolicies(p) ==
    /\ proc[p].call.pc = "group_policies"
    /\ LET engine == proc[p].engine
           call == proc[p].call
           group_attrs == GetSubjectAttributes(engine, employee[engine.user])
           group_policies == GetGroupPolicies(engine, group_attrs,
                                              groupPolicies, policies)
           all_policies == AllPolicies(call.user_policies, group_policies)
           applicable_set == Applicable(all_policies, call.req.resource_type,
                                        call.req.action, call.req.resource_id)
       IN  IF QueryRaises(repoDown)
           THEN proc' = [proc EXCEPT ![p].call =
                    [@ EXCEPT !.pc = "error", !.raised = "DatabaseError"]]
           ELSE \E applicable \in SortedByPriority(applicable_set) :
                  LET d == Decide(call, applicable) IN
                  proc' = [proc EXCEPT ![p].call =
                      [@ EXCEPT !.pc = IF engine.log_decisions
                                       THEN "log" ELSE "done",
                                !.reads = @ \cup {"GroupPolicy"},
                                !.group_attrs = group_attrs,
                                !.policies = applicable,
                                !.decision = d.decision,
                                !.reason = d.reason,
                                !.evaluated = d.evaluated,
                                !.result = IF engine.log_decisions
                                           THEN FALSE ELSE d.decision]]
    /\ UNCHANGED <<dbVars, envVars, logs>>

\* An audit row that records every decision as an ALLOW.
PolicyLogRowOfAllow(engine, call) ==
    [user |-> engine.user,
     organization |-> engine.organization,
     resource_type |-> call.req.resource_type,
     resource_id |-> IF Truthy(call.req.resource_id)
                     THEN call.req.resource_id ELSE EMPTY,
     action |-> call.req.action,
     result |-> TRUE,
     subject_attributes |-> call.subject_attrs,
     resource_attributes |-> call.req.resource_attrs,
     environment_attributes |-> call.environment_attrs,
     policies_evaluated |-> call.evaluated,
     decision_reason |-> call.reason]

\* The row _log_decision creates.
PolicyLogRow(engine, call) ==
    [user |-> engine.user,
     organization |-> engine.organization,
     resource_type |-> call.req.resource_type,
     resource_id |-> IF Truthy(call.req.resource_id)
                     THEN call.req.resource_id ELSE EMPTY,
     action |-> call.req.action,
     result |-> call.decision,
     subject_attributes |-> call.subject_attrs,
     resource_attributes |-> call.req.resource_attrs,
     environment_attributes |-> call.environment_attrs,
     policies_evaluated |-> call.evaluated,
     decision_reason |-> call.reason]

\* A _log_decision that lets the error of the write escape.
AfterLogRaises(call, write_failed) ==
    IF write_failed
    THEN [call EXCEPT !.pc = "error", !.raised = "DatabaseError",
                      !.audit = "failed"]
    ELSE [call EXCEPT !.pc = "done", !.result = call.decision,
                      !.audit = "written"]

\* What check_access does with the outcome of the audit write: an error of
\* the write is caught inside _log_decision, and the decision is returned.
AfterLog(call, write_failed) ==
    [call EXCEPT !.pc = "done",
                 !.result = call.decision,
                 !.audit = IF write_failed THEN "failed" ELSE "written"]

\* An audit write that inserts the row twice.
AuditWriteTwice(log, row, write_failed) ==
    IF write_failed THEN log ELSE Append(Append(log, row), row)

\* An audit write that replaces the rows of the table by its own.
AuditWriteOverwrites(log, row, write_failed) ==
    IF write_failed THEN log ELSE <<row>>

\* Lines 283-295: PolicyLog.objects.create inserts one row, or fails and
\* leaves the table as it was.
AuditWrite(log, row, write_failed) ==
    IF write_failed THEN log ELSE Append(log, row)

\* Lines 72-85 and 268-299: the audit write, which PolicyLog.objects.create
\* may fail, then the return.
LogDecision(p, write_failed) ==
    /\ proc[p].call.pc = "log"
    /\ proc' = [proc EXCEPT ![p].call = AfterLog(@, write_failed)]
    /\ logs' = AuditWrite(logs, PolicyLogRow(proc[p].engine, proc[p].call),
                          write_failed)
    /\ UNCHANGED <<dbVars, envVars>>

----------------------------------------------------------------------------
(* The rest of the system: administration, directory, ambient context *)

\* UserPolicyViewSet create: a new assignment row.
AssignUserPolicy(row) ==
    /\ row \notin userPolicies
    /\ Cardinality(userPolicies) < MaxUserPolicies
    /\ userPolicies' = userPolicies \cup {row}
    /\ UNCHANGED <<policies, groupPolicies, envVars, logs, proc>>

\* UserPolicyViewSet destroy.
RemoveUserPolicy(row) ==
    /\ row \in userPolicies
    /\ userPolicies' = userPolicies \ {row}
    /\ UNCHANGED <<policies, groupPolicies, envVars, logs, proc>>

\* GroupPolicyViewSet create.
AddGroupPolicy(row) ==
    /\ row \notin groupPolicies
    /\ Cardinality(groupPolicies) < MaxGroupPolicies
    /\ groupPolicies' = groupPolicies \cup {row}
    /\ UNCHANGED <<policies, userPolicies, envVars, logs, proc>>

\* GroupPolicyViewSet destroy.
RemoveGroupPolicy(row) ==
    /\ row \in groupPolicies
    /\ groupPolicies' = groupPolicies \ {row}
    /\ UNCHANGED <<policies, userPolicies, envVars, logs, proc>>

\* PolicyViewSet update: the row of one policy is replaced.
SavePolicy(row) ==
    /\ policies[row.id] /= row
    /\ policies' = [policies EXCEPT ![row.id] = row]
    /\ UNCHANGED <<userPolicies, groupPolicies, envVars, logs, proc>>

\* The directory replaces the employee profile of a user.
SaveEmployee(u, profile) ==
    /\ employee[u] /= profile
    /\ employee' = [employee EXCEPT ![u] = profile]
    /\ UNCHANGED <<dbVars, currentOrg, repoDown, logs, proc>>

\* The organization middleware sets or clears the ambient organization.
SetCurrentOrganization(org) ==
    /\ currentOrg /= org
    /\ currentOrg' = org
    /\ UNCHANGED <<dbVars, employee, repoDown, logs, proc>>

\* The policy tables start or stop raising on reads.
RepositoryFlips ==
    /\ repoDown' = ~repoDown
    /\ UNCHANGED <<dbVars, employee, currentOrg, logs, proc>>

----------------------------------------------------------------------------
(* Data the specifications draw from *)

ResourceTypes == {"payroll", "leave"}
Actions == {"read", "delete"}
ResourceIds == {"r1", "r2"}

OwnerRule == [attribute_path |-> <<"resource", "owner">>, operator |-> "equals",
              value |-> "alice", is_active |-> TRUE]
DepartmentRule == [attribute_path |-> <<"subject", "department">>,
                   operator |-> "equals", value |-> "Engineering",
                   is_active |-> TRUE]

\* A policy row with no filter, active, inside its window.
PlainPolicy(id, effect, rules) ==
    [id |-> id, name |-> id, effect |-> effect, organization |-> "orgA",
     resource_type |-> NULL, actions |-> ActionsNone, resource_id |-> NULL,
     is_active |-> TRUE, valid |-> TRUE, priority |-> 1, rules |-> rules]

\* Policy rows that differ in effect and in whether a rule guards them.
DecisionPolicyRows(id) ==
    {PlainPolicy(id, effect, rules) :
        effect \in {ALLOW, DENY}, rules \in {{}, {OwnerRule}}}

UserPolicyRowsOf(users, ids) ==
    [user : users, organization : Tenants, policy : ids,
     is_active : {TRUE}, valid : {TRUE}]

GroupPolicyRowsOf(idsets) ==
    [organization : Tenants, group_type : {"department"},
     group_value : {"Engineering"}, is_active : {TRUE}, policies : idsets]

\* Tables of at most n rows.
RECURSIVE UpTo(_, _)
UpTo(rows, n) ==
    IF n = 0 THEN {{}}
    ELSE UpTo(rows, n - 1)
            \cup {S \cup {r} : S \in UpTo(rows, n - 1), r \in rows}

Engineer == [exists |-> TRUE, department |-> "Engineering", location |-> NULL,
             job_level |-> NULL, employment_type |-> "full_time"]

Request(resource_type, action, owner, resource_id) ==
    [resource_type |-> resource_type, action |-> action,
     resource_attrs |-> [owner |-> owner], resource_id |-> resource_id]

\* The requests of the lifecycle specification: the resource owner decides
\* whether a rule-guarded policy matches.
LifecycleRequests ==
    {Request("payroll", "read", owner, NULL) : owner \in {MISSING, "alice"}}

----------------------------------------------------------------------------
(* Lifecycle specification: engines, calls and administration interleaved *)

Init ==
    /\ policies = [id \in PolicyIds |->
                      IF id = "P1" THEN PlainPolicy(id, ALLOW, {})
                      ELSE PlainPolicy(id, DENY, {OwnerRule})]
    /\ userPolicies = {}
    /\ groupPolicies = {}
    /\ employee = [u \in Users |-> IF u = "alice" THEN Engineer ELSE NoEmployee]
    /\ currentOrg = NULL
    /\ repoDown = FALSE
    /\ logs = <<>>
    /\ proc = [p \in Procs |->
                  [engine |-> NoEngine, ctor |-> NoCtor, call |-> NoCall]]

\* The lifecycle assigns the unguarded ALLOW policy directly and the
\* rule-guarded DENY policy through the department group.
LifecycleUserPolicyRows == UserPolicyRowsOf({"alice"}, {"P1"})
LifecycleGroupPolicyRows == GroupPolicyRowsOf({{"P2"}})

Next ==
    \/ \E p \in Procs, u \in Users, log_decisions \in BOOLEAN :
          Construct(p, u, log_decisions)
    \/ \E p \in Procs : Discard(p)
    \/ \E p \in Procs, req \in LifecycleRequests, weekday \in {0} :
          CheckAccessBegin(p, req, weekday)
    \/ \E p \in Procs : ReadUserPolicies(p)
    \/ \E p \in Procs : ReadGroupPolicies(p)
    \/ \E p \in Procs, write_failed \in BOOLEAN : LogDecision(p, write_failed)
    \/ \E row \in LifecycleUserPolicyRows : AssignUserPolicy(row)
    \/ \E row \in LifecycleUserPolicyRows : RemoveUserPolicy(row)
    \/ \E row \in LifecycleGroupPolicyRows : AddGroupPolicy(row)
    \/ \E row \in LifecycleGroupPolicyRows : RemoveGroupPolicy(row)
    \/ \E org \in Tenants \cup {NULL} : SetCurrentOrganization(org)
    \/ RepositoryFlips

Spec == Init /\ [][Next]_vars

----------------------------------------------------------------------------
(* Check specification: one engine and its calls over a store drawn from    *)
(* every combination of policy effects, rules and assignments               *)

\* Either effect for each policy, with or without the owner rule.
CheckPolicyTables ==
    {[id \in PolicyIds |-> IF id = "P1" THEN r1 ELSE r2] :
        r1 \in DecisionPolicyRows("P1"), r2 \in DecisionPolicyRows("P2")}

InitCheck ==
    /\ policies \in CheckPolicyTables
    /\ userPolicies \in UpTo(UserPolicyRowsOf(Users, PolicyIds), MaxUserPolicies)
    /\ groupPolicies \in UpTo(GroupPolicyRowsOf({{"P1"}, {"P2"}}), MaxGroupPolicies)
    /\ employee = [u \in Users |-> IF u = "alice" THEN Engineer ELSE NoEmployee]
    /\ currentOrg \in Tenants \cup {NULL}
    /\ repoDown \in BOOLEAN
    /\ logs = <<>>
    /\ proc = [p \in Procs |->
                  [engine |-> NoEngine, ctor |-> NoCtor, call |-> NoCall]]

NextCheck ==
    \/ \E p \in Procs, u \in Users, log_decisions \in BOOLEAN :
          Construct(p, u, log_decisions)
    \/ \E p \in Procs, req \in LifecycleRequests, weekday \in {0} :
          CheckAccessBegin(p, req, weekday)
    \/ \E p \in Procs : ReadUserPolicies(p)
    \/ \E p \in Procs : ReadGroupPolicies(p)
    \/ \E p \in Procs, write_failed \in BOOLEAN : LogDecision(p, write_failed)

SpecCheck == InitCheck /\ [][NextCheck]_vars

----------------------------------------------------------------------------
(* Filter specification: one engine of alice in orgA and its calls, over   *)
(* policies that differ in their resource_type, actions and resource_id    *)

FilterPolicyRows(id) ==
    IF id = "P1"
    THEN {[PlainPolicy(id, ALLOW, {}) EXCEPT
              !.resource_type = rt, !.actions = acts, !.resource_id = rid] :
            rt \in {NULL, EMPTY, "payroll"},
            acts \in {ActionsNone, ActionsOf({}), ActionsOf({"read"})},
            rid \in {NULL, EMPTY, "r1"}}
    ELSE {[PlainPolicy(id, DENY, {}) EXCEPT
              !.resource_type = rt, !.actions = acts] :
            rt \in {NULL, "leave"},
            acts \in {ActionsNone, ActionsOf({"read", "delete"})}}

FilterRequests ==
    {Request(rt, act, MISSING, rid) :
        rt \in ResourceTypes, act \in Actions,
        rid \in {NULL, EMPTY} \cup ResourceIds}

InitFilter ==
    /\ policies \in {[id \in PolicyIds |-> IF id = "P1" THEN r1 ELSE r2] :
                        r1 \in FilterPolicyRows("P1"),
                        r2 \in FilterPolicyRows("P2")}
    /\ userPolicies \in UpTo(UserPolicyRowsOf({"alice"}, PolicyIds),
                             MaxUserPolicies)
    /\ groupPolicies \in UpTo(GroupPolicyRowsOf({{"P1"}, {"P2"}}),
                              MaxGroupPolicies)
    /\ employee = [u \in Users |-> IF u = "alice" THEN Engineer ELSE NoEmployee]
    /\ currentOrg = "orgA"
    /\ repoDown = FALSE
    /\ logs = <<>>
    /\ proc = [p \in Procs |->
                  [engine |-> NoEngine, ctor |-> NoCtor, call |-> NoCall]]

NextFilter ==
    \/ \E p \in Procs : Construct(p, "alice", FALSE)
    \/ \E p \in Procs, req \in FilterRequests, weekday \in {0} :
          CheckAccessBegin(p, req, weekday)
    \/ \E p \in Procs : ReadUserPolicies(p)
    \/ \E p \in Procs : ReadGroupPolicies(p)

SpecFilter == InitFilter /\ [][NextFilter]_vars

----------------------------------------------------------------------------
(* Evaluation specification: one engine of alice in orgA and its calls,    *)
(* over policies that differ in effect, rules and priority                 *)

InactiveOwnerRule == [OwnerRule EXCEPT !.is_active = FALSE]

Priorities == {1, 2}

\* No rule, one rule, two rules, and two rules of which one is inactive.
EvalPolicyRows(id) ==
    {[PlainPolicy(id, effect, rules) EXCEPT !.priority = priority] :
        effect \in {ALLOW, DENY},
        rules \in {{}, {OwnerRule}, {DepartmentRule, OwnerRule},
                   {DepartmentRule, InactiveOwnerRule}},
        priority \in Priorities}

\* The rows of organization orgA.
InOrgA(rows) == {r \in rows : r.organization = "orgA"}

InitEval ==
    /\ policies \in {[id \in PolicyIds |-> IF id = "P1" THEN r1 ELSE r2] :
                        r1 \in EvalPolicyRows("P1"),
                        r2 \in EvalPolicyRows("P2")}
    /\ userPolicies \in UpTo(InOrgA(UserPolicyRowsOf({"alice"}, PolicyIds)),
                             MaxUserPolicies)
    /\ groupPolicies \in
          UpTo(InOrgA(GroupPolicyRowsOf({{"P1"}, {"P2"}, {"P1", "P2"}})),
               MaxGroupPolicies)
    /\ employee = [u \in Users |-> IF u = "alice" THEN Engineer ELSE NoEmployee]
    /\ currentOrg = "orgA"
    /\ repoDown = FALSE
    /\ logs = <<>>
    /\ proc = [p \in Procs |->
                  [engine |-> NoEngine, ctor |-> NoCtor, call |-> NoCall]]

NextEval ==
    \/ \E p \in Procs : Construct(p, "alice", FALSE)
    \/ \E p \in Procs, req \in LifecycleRequests, weekday \in {0} :
          CheckAccessBegin(p, req, weekday)
    \/ \E p \in Procs : ReadUserPolicies(p)
    \/ \E p \in Procs : ReadGroupPolicies(p)

SpecEval == InitEval /\ [][NextEval]_vars

----------------------------------------------------------------------------
(* Concurrency specification: two callers, each with its own engine, whose *)
(* calls interleave step by step over a store that does not change         *)

PairProcs == {"p1", "p2"}

InitPair ==
    /\ policies = [id \in PolicyIds |->
                      IF id = "P1" THEN PlainPolicy(id, ALLOW, {})
                      ELSE PlainPolicy(id, DENY, {OwnerRule})]
    /\ userPolicies \in UpTo(LifecycleUserPolicyRows, MaxUserPolicies)
    /\ groupPolicies \in UpTo(LifecycleGroupPolicyRows, MaxGroupPolicies)
    /\ employee = [u \in Users |-> IF u = "alice" THEN Engineer ELSE NoEmployee]
    /\ currentOrg = "orgA"
    /\ repoDown = FALSE
    /\ logs = <<>>
    /\ proc = [p \in PairProcs |->
                  [engine |-> NoEngine, ctor |-> NoCtor, call |-> NoCall]]

NextPair ==
    \/ \E p \in PairProcs, u \in {"alice", "admin"}, log_decisions \in BOOLEAN :
          Construct(p, u, log_decisions)
    \/ \E p \in PairProcs, req \in LifecycleRequests, weekday \in {0} :
          CheckAccessBegin(p, req, weekday)
    \/ \E p \in PairProcs : ReadUserPolicies(p)
    \/ \E p \in PairProcs : ReadGroupPolicies(p)
    \/ \E p \in PairProcs, write_failed \in BOOLEAN : LogDecision(p, write_failed)
    \/ \E org \in Tenants : SetCurrentOrganization(org)

SpecPair == InitPair /\ [][NextPair]_vars

----------------------------------------------------------------------------
(* Change specification: two engines of alice in orgA whose calls          *)
(* interleave with changes of the assignments, of a policy and of the      *)
(* directory                                                               *)

Salesperson == [Engineer EXCEPT !.department = "Sales"]

InitChange ==
    /\ policies = [id \in PolicyIds |->
                      IF id = "P1" THEN PlainPolicy(id, ALLOW, {})
                      ELSE PlainPolicy(id, DENY, {})]
    /\ userPolicies = {}
    /\ groupPolicies = {}
    /\ employee = [u \in Users |-> IF u = "alice" THEN Engineer ELSE NoEmployee]
    /\ currentOrg = "orgA"
    /\ repoDown = FALSE
    /\ logs = <<>>
    /\ proc = [p \in PairProcs |->
                  [engine |-> NoEngine, ctor |-> NoCtor, call |-> NoCall]]

NextChange ==
    \/ \E p \in PairProcs : Construct(p, "alice", FALSE)
    \/ \E p \in PairProcs, weekday \in {0} :
          CheckAccessBegin(p, Request("payroll", "read", MISSING, NULL), weekday)
    \/ \E p \in PairProcs : ReadUserPolicies(p)
    \/ \E p \in PairProcs : ReadGroupPolicies(p)
    \/ \E row \in InOrgA(LifecycleUserPolicyRows) : AssignUserPolicy(row)
    \/ \E row \in InOrgA(LifecycleUserPolicyRows) : RemoveUserPolicy(row)
    \/ \E row \in InOrgA(LifecycleGroupPolicyRows) : AddGroupPolicy(row)
    \/ \E row \in InOrgA(LifecycleGroupPolicyRows) : RemoveGroupPolicy(row)
    \/ \E id \in PolicyIds, is_active \in BOOLEAN :
          SavePolicy([policies[id] EXCEPT !.is_active = is_active])
    \/ \E profile \in {Engineer, Salesperson} : SaveEmployee("alice", profile)

SpecChange == InitChange /\ [][NextChange]_vars

----------------------------------------------------------------------------
(* Validity specification: one engine of alice and its calls, over          *)
(* assignments and policies that are active or not and inside their        *)
(* validity window or not                                                  *)

\* UserPolicy rows with every combination of is_active and is_valid_now().
AssignmentRows(users, ids) ==
    [user : users, organization : Tenants, policy : ids,
     is_active : BOOLEAN, valid : BOOLEAN]

\* Policy rows with every combination of is_active and is_valid_now().
ValidityPolicyRows(id) ==
    {[PlainPolicy(id, IF id = "P1" THEN ALLOW ELSE DENY, {}) EXCEPT
          !.is_active = is_active, !.valid = valid] :
        is_active \in BOOLEAN, valid \in BOOLEAN}

InitValid ==
    /\ policies \in {[id \in PolicyIds |-> IF id = "P1" THEN r1 ELSE r2] :
                        r1 \in ValidityPolicyRows("P1"),
                        r2 \in ValidityPolicyRows("P2")}
    /\ userPolicies \in UpTo(AssignmentRows({"alice"}, PolicyIds),
                             MaxUserPolicies)
    /\ groupPolicies \in UpTo(InOrgA(GroupPolicyRowsOf({{"P1"}, {"P2"}})),
                              MaxGroupPolicies)
    /\ employee = [u \in Users |-> IF u = "alice" THEN Engineer ELSE NoEmployee]
    /\ currentOrg \in Tenants
    /\ repoDown = FALSE
    /\ logs = <<>>
    /\ proc = [p \in Procs |->
                  [engine |-> NoEngine, ctor |-> NoCtor, call |-> NoCall]]

NextValid ==
    \/ \E p \in Procs : Construct(p, "alice", FALSE)
    \/ \E p \in Procs, req \in LifecycleRequests, weekday \in {0} :
          CheckAccessBegin(p, req, weekday)
    \/ \E p \in Procs : ReadUserPolicies(p)
    \/ \E p \in Procs : ReadGroupPolicies(p)

SpecValid == InitValid /\ [][NextValid]_vars

----------------------------------------------------------------------------
(* Group specification: one engine of alice and its calls, over groups of  *)
(* every type, while the directory changes alice's profile                 *)

Senior == [Engineer EXCEPT !.location = "Pune", !.job_level = "L3"]

Profiles == {NoEmployee, Engineer, Salesperson, Senior}

\* GroupPolicy rows of the four group types and of an unknown one, with
\* values that equal an attribute of a profile, equal another attribute of
\* it, or equal none.
GroupRows ==
    [organization : Tenants, group_type : {"department", "location", "team"},
     group_value : {"Engineering", "Pune"}, is_active : BOOLEAN,
     policies : {{"P2"}}]
    \cup [organization : Tenants, group_type : {"job_level"},
          group_value : {"L3"}, is_active : BOOLEAN, policies : {{"P2"}}]
    \cup [organization : Tenants, group_type : {"employment_type"},
          group_value : {"full_time"}, is_active : BOOLEAN,
          policies : {{"P2"}}]

InitGroup ==
    /\ policies \in {[id \in PolicyIds |->
                         IF id = "P1" THEN PlainPolicy(id, ALLOW, {})
                         ELSE [PlainPolicy(id, DENY, {}) EXCEPT
                                  !.is_active = is_active]] :
                        is_active \in BOOLEAN}
    /\ userPolicies \in UpTo(InOrgA(UserPolicyRowsOf({"alice"}, {"P1"})),
                             MaxUserPolicies)
    /\ groupPolicies \in UpTo(GroupRows, MaxGroupPolicies)
    /\ employee = [u \in Users |-> IF u = "alice" THEN Engineer ELSE NoEmployee]
    /\ currentOrg = "orgA"
    /\ repoDown = FALSE
    /\ logs = <<>>
    /\ proc = [p \in Procs |->
                  [engine |-> NoEngine, ctor |-> NoCtor, call |-> NoCall]]

NextGroup ==
    \/ \E p \in Procs : Construct(p, "alice", FALSE)
    \/ \E p \in Procs, weekday \in {0} :
          CheckAccessBegin(p, Request("payroll", "read", MISSING, NULL), weekday)
    \/ \E p \in Procs : ReadUserPolicies(p)
    \/ \E p \in Procs : ReadGroupPolicies(p)
    \/ \E profile \in Profiles : SaveEmployee("alice", profile)

SpecGroup == InitGroup /\ [][NextGroup]_vars

----------------------------------------------------------------------------
(* Deduplication specification: one engine of alice in orgA and its calls, *)
(* over tables in which a policy is assigned by several rows and attached  *)
(* to several groups, while a policy is edited between the reads           *)

MaxSharedRows == 2

\* Two UserPolicy rows per policy, told apart by their primary key.
SharedUserPolicyRows ==
    [user : {"alice"}, organization : {"orgA"}, policy : PolicyIds,
     is_active : {TRUE}, valid : {TRUE}, id : 1..2]

\* Groups of two types that alice belongs to, attaching one or both
\* policies.
SharedGroupRows ==
    [organization : {"orgA"}, group_type : {"department"},
     group_value : {"Engineering"}, is_active : {TRUE},
     policies : {{"P1"}, {"P1", "P2"}}]
    \cup [organization : {"orgA"}, group_type : {"employment_type"},
          group_value : {"full_time"}, is_active : {TRUE},
          policies : {{"P1"}}]

InitDedup ==
    /\ policies = [id \in PolicyIds |->
                      PlainPolicy(id, IF id = "P1" THEN ALLOW ELSE DENY, {})]
    /\ userPolicies \in UpTo(SharedUserPolicyRows, MaxSharedRows)
    /\ groupPolicies \in UpTo(SharedGroupRows, MaxSharedRows)
    /\ employee = [u \in Users |-> IF u = "alice" THEN Engineer ELSE NoEmployee]
    /\ currentOrg = "orgA"
    /\ repoDown = FALSE
    /\ logs = <<>>
    /\ proc = [p \in Procs |->
                  [engine |-> NoEngine, ctor |-> NoCtor, call |-> NoCall]]

NextDedup ==
    \/ \E p \in Procs : Construct(p, "alice", FALSE)
    \/ \E p \in Procs, weekday \in {0} :
          CheckAccessBegin(p, Request("payroll", "read", MISSING, NULL), weekday)
    \/ \E p \in Procs : ReadUserPolicies(p)
    \/ \E p \in Procs : ReadGroupPolicies(p)
    \/ \E id \in PolicyIds, priority \in Priorities :
          SavePolicy([policies[id] EXCEPT !.priority = priority])

SpecDedup == InitDedup /\ [][NextDedup]_vars

----------------------------------------------------------------------------
(* Audit specification: one logging engine of alice in orgA, policies that *)
(* differ in effect and in whether a rule guards them, and audit writes     *)
(* that succeed or fail                                                     *)

InitAudit ==
    /\ policies \in {[id \in PolicyIds |-> IF id = "P1" THEN r1 ELSE r2] :
                        r1 \in DecisionPolicyRows("P1"),
                        r2 \in DecisionPolicyRows("P2")}
    /\ userPolicies \in UpTo(InOrgA(UserPolicyRowsOf({"alice"}, PolicyIds)),
                             MaxUserPolicies)
    /\ groupPolicies \in
          UpTo(InOrgA(GroupPolicyRowsOf({{"P1"}, {"P2"}, {"P1", "P2"}})),
               MaxGroupPolicies)
    /\ employee = [u \in Users |-> IF u = "alice" THEN Engineer ELSE NoEmployee]
    /\ currentOrg = "orgA"
    /\ repoDown = FALSE
    /\ logs = <<>>
    /\ proc = [p \in Procs |->
                  [engine |-> NoEngine, ctor |-> NoCtor, call |-> NoCall]]

NextAudit ==
    \/ \E p \in Procs : Construct(p, "alice", TRUE)
    \/ \E p \in Procs, req \in LifecycleRequests, weekday \in {0} :
          CheckAccessBegin(p, req, weekday)
    \/ \E p \in Procs : ReadUserPolicies(p)
    \/ \E p \in Procs : ReadGroupPolicies(p)
    \/ \E p \in Procs, write_failed \in BOOLEAN : LogDecision(p, write_failed)

SpecAudit == InitAudit /\ [][NextAudit]_vars

----------------------------------------------------------------------------

(* Tenant specification: an engine of alice in orgA, a policy P2 that may   *)
(* belong to orgB, and assignments made under orgA (bulk_assign stores the  *)
(* policy ids of the request body as they come)                             *)

\* P1 belongs to orgA; P2 belongs to either tenant.
TenantPolicyRows(id) ==
    {[PlainPolicy(id, effect, {}) EXCEPT !.organization = org] :
        effect \in {ALLOW, DENY},
        org \in IF id = "P1" THEN {"orgA"} ELSE Tenants}

InitTenant ==
    /\ policies \in {[id \in PolicyIds |-> IF id = "P1" THEN r1 ELSE r2] :
                        r1 \in TenantPolicyRows("P1"),
                        r2 \in TenantPolicyRows("P2")}
    /\ userPolicies = {}
    /\ groupPolicies \in UpTo(InOrgA(GroupPolicyRowsOf({{"P1"}})),
                              MaxGroupPolicies)
    /\ employee = [u \in Users |-> IF u = "alice" THEN Engineer ELSE NoEmployee]
    /\ currentOrg = "orgA"
    /\ repoDown = FALSE
    /\ logs = <<>>
    /\ proc = [p \in Procs |->
                  [engine |-> NoEngine, ctor |-> NoCtor, call |-> NoCall]]

NextTenant ==
    \/ \E p \in Procs : Construct(p, "alice", FALSE)
    \/ \E p \in Procs, weekday \in {0} :
          CheckAccessBegin(p, Request("payroll", "read", MISSING, NULL), weekday)
    \/ \E p \in Procs : ReadUserPolicies(p)
    \/ \E p \in Procs : ReadGroupPolicies(p)
    \/ \E row \in UserPolicyRowsOf({"alice"}, PolicyIds) :
          row.organization = currentOrg /\ AssignUserPolicy(row)
    \/ \E row \in userPolicies : RemoveUserPolicy(row)

SpecTenant == InitTenant /\ [][NextTenant]_vars

----------------------------------------------------------------------------

(* Ambient-context specification: one logging engine of alice whose calls   *)
(* interleave with the middleware setting and clearing the ambient          *)
(* organization, over assignments and groups of both tenants                *)

InitAmbient ==
    /\ policies = [id \in PolicyIds |->
                      IF id = "P1" THEN PlainPolicy(id, ALLOW, {})
                      ELSE PlainPolicy(id, DENY, {})]
    /\ userPolicies \in UpTo(UserPolicyRowsOf({"alice"}, PolicyIds),
                             MaxUserPolicies)
    /\ groupPolicies \in UpTo(GroupPolicyRowsOf({{"P1"}, {"P2"}}),
                              MaxGroupPolicies)
    /\ employee = [u \in Users |-> IF u = "alice" THEN Engineer ELSE NoEmployee]
    /\ currentOrg \in Tenants
    /\ repoDown = FALSE
    /\ logs = <<>>
    /\ proc = [p \in Procs |->
                  [engine |-> NoEngine, ctor |-> NoCtor, call |-> NoCall]]

NextAmbient ==
    \/ \E p \in Procs : Construct(p, "alice", TRUE)
    \/ \E p \in Procs, weekday \in {0} :
          CheckAccessBegin(p, Request("payroll", "read", MISSING, NULL), weekday)
    \/ \E p \in Procs : ReadUserPolicies(p)
    \/ \E p \in Procs : ReadGroupPolicies(p)
    \/ \E p \in Procs, write_failed \in BOOLEAN : LogDecision(p, write_failed)
    \/ \E org \in Tenants \cup {NULL} : SetCurrentOrganization(org)

SpecAmbient == InitAmbient /\ [][NextAmbient]_vars

----------------------------------------------------------------------------

(* Properties *)

\* The call of caller p, and whether it went past both bypasses.
CallOf(p) == proc[p].call
Returned(p) == CallOf(p).pc = "done"
Bypassed(p) ==
    \/ UserTable[proc[p].engine.user].is_superuser
    \/ UserTable[proc[p].engine.user].is_org_admin
Evaluated(p) ==
    /\ proc[p].engine.exists
    /\ ~Bypassed(p)
    /\ Returned(p)

\* Policy pol of the list handed to _evaluate_policies matches the call.
MatchesCall(pol, call) ==
    PolicyEvaluate(pol, call.subject_attrs, call.req.resource_attrs,
                   call.req.action, call.environment_attrs)

\* C1: constructing an engine for a non-superuser while no organization is
\* resolvable raises and leaves no instance, so an instance of a
\* non-superuser always has an organization and a check_access call always
\* runs on an instance; constructing for a superuser always succeeds.
ConstructionFailsClosed ==
    \A p \in Procs :
        LET c == proc[p].ctor
            e == proc[p].engine
        IN  /\ (c.user /= NULL /\ ~UserTable[c.user].is_superuser
                    /\ c.organization = NULL)
                  => (c.raised = "PermissionDenied" /\ ~e.exists)
            /\ (c.user /= NULL /\ UserTable[c.user].is_superuser)
                  => (c.raised = NULL /\ e.exists)
            /\ (e.exists /\ ~UserTable[e.user].is_superuser)
                  => e.organization \in Tenants
            /\ CallOf(p).pc /= "idle" => e.exists

\* C1 witness: a construction for alice without an organization has raised.
ConstructionRefused ==
    \E p \in Procs :
        /\ proc[p].ctor.user = "alice"
        /\ proc[p].ctor.organization = NULL
        /\ proc[p].ctor.raised = "PermissionDenied"

\* C2: a returned True comes from the superuser bypass, from the
\* organization-admin bypass, or from a list in which an ALLOW policy
\* matched and no DENY policy matched; every other returned value is False.
AllowOnlyWhenDefinite ==
    \A p \in Procs :
        (proc[p].engine.exists /\ Returned(p)) =>
            (CallOf(p).result =
                (\/ Bypassed(p)
                 \/ /\ \E i \in 1..Len(CallOf(p).policies) :
                          /\ CallOf(p).policies[i].effect = ALLOW
                          /\ MatchesCall(CallOf(p).policies[i], CallOf(p))
                    /\ \A i \in 1..Len(CallOf(p).policies) :
                          ~(/\ CallOf(p).policies[i].effect = DENY
                            /\ MatchesCall(CallOf(p).policies[i], CallOf(p)))))

\* C2 witness: a non-bypassed call returned True, with policies applicable.
AllowedByPolicy ==
    \E p \in Procs :
        /\ Evaluated(p)
        /\ CallOf(p).result = TRUE
        /\ CallOf(p).policies /= <<>>

\* The policy ids that reach the engine's user in the engine's organization
\* by a valid direct assignment, and by an active group of the user's
\* department.
DirectIds(engine) ==
    {up.policy : up \in
        {r \in userPolicies : /\ r.user = engine.user
                              /\ r.organization = engine.organization
                              /\ r.is_active /\ r.valid
                              /\ policies[r.policy].is_active
                              /\ policies[r.policy].valid}}
GroupIds(engine) ==
    {id \in UNION {g.policies : g \in
        {r \in groupPolicies :
            /\ r.organization = engine.organization
            /\ r.is_active
            /\ r.group_type = "department"
            /\ employee[engine.user].exists
            /\ r.group_value = employee[engine.user].department}} :
        policies[id].is_active}

\* C3: when a DENY policy of the applicable list matches, the non-bypassed
\* call returns False, whatever ALLOW policies match as well.
DenyOverridesAllow ==
    \A p \in Procs :
        (/\ Evaluated(p)
         /\ \E i \in 1..Len(CallOf(p).policies) :
               /\ CallOf(p).policies[i].effect = DENY
               /\ MatchesCall(CallOf(p).policies[i], CallOf(p)))
            => CallOf(p).result = FALSE

\* C3 witness: a matching ALLOW assigned directly and a matching DENY of a
\* group were both evaluated, and the call returned False.
DenyBeatsAllowAcrossPaths ==
    \E p \in Procs :
        /\ Evaluated(p)
        /\ CallOf(p).result = FALSE
        /\ \E a \in DirectIds(proc[p].engine), d \in GroupIds(proc[p].engine) :
              /\ policies[a].effect = ALLOW
              /\ policies[d].effect = DENY
              /\ MatchesCall(policies[a], CallOf(p))
              /\ MatchesCall(policies[d], CallOf(p))
              /\ {a, d} \subseteq {CallOf(p).evaluated[i] :
                                      i \in 1..Len(CallOf(p).evaluated)}

\* C4: a non-bypassed call returns False when the applicable list is empty
\* and when it is not empty but no policy of it matches.
DefaultDeny ==
    \A p \in Procs :
        (/\ Evaluated(p)
         /\ \A i \in 1..Len(CallOf(p).policies) :
               ~MatchesCall(CallOf(p).policies[i], CallOf(p)))
            => CallOf(p).result = FALSE

\* C4 witness: policies were applicable, none matched, the call returned
\* False.
DeniedWithoutMatch ==
    \E p \in Procs :
        /\ Evaluated(p)
        /\ CallOf(p).policies /= <<>>
        /\ \A i \in 1..Len(CallOf(p).policies) :
              ~MatchesCall(CallOf(p).policies[i], CallOf(p))
        /\ CallOf(p).result = FALSE

\* The rows of the engine's own organization.
OwnRows(engine, rows) == {r \in rows : r.organization = engine.organization}

\* C5: a check of an engine bound to one organization evaluates only
\* policies that reach the user through rows of that organization, and its
\* decision is the decision over the store with every UserPolicy and
\* GroupPolicy row of the other organizations removed.
TenantIsolation ==
    \A p \in Procs :
        (/\ proc[p].engine.exists
         /\ ~Bypassed(p)
         /\ CallOf(p).pc \in {"log", "done"})
            => /\ \A i \in 1..Len(CallOf(p).policies) :
                     CallOf(p).policies[i].id \in
                         DirectIds(proc[p].engine) \cup GroupIds(proc[p].engine)
               /\ CallOf(p).decision =
                     DecisionOn(proc[p].engine, CallOf(p),
                                OwnRows(proc[p].engine, userPolicies),
                                OwnRows(proc[p].engine, groupPolicies))

\* C5 witness: the call returned True although another organization holds
\* a row that assigns a matching DENY policy to the same user.
ForeignDenyIgnored ==
    \E p \in Procs :
        /\ Evaluated(p)
        /\ CallOf(p).result = TRUE
        /\ \E r \in userPolicies :
              /\ r.user = proc[p].engine.user
              /\ r.organization /= proc[p].engine.organization
              /\ policies[r.policy].effect = DENY
              /\ MatchesCall(policies[r.policy], CallOf(p))

\* C6: a call of a superuser's engine returns True in its first step, with
\* no table read and no error, whatever the store holds, whether or not an
\* organization is bound and whether or not the policy tables can be read.
SuperuserAlwaysAllowed ==
    \A p \in Procs :
        (/\ proc[p].engine.exists
         /\ UserTable[proc[p].engine.user].is_superuser
         /\ CallOf(p).pc /= "idle")
            => /\ Returned(p)
               /\ CallOf(p).result = TRUE
               /\ CallOf(p).reads = {}
               /\ CallOf(p).raised = NULL

\* C6 witness: the superuser was allowed with no organization bound, the
\* policy tables failing and a DENY policy without rules assigned to them.
SuperuserAllowedWithoutTenant ==
    \E p \in Procs :
        /\ Returned(p)
        /\ CallOf(p).result = TRUE
        /\ proc[p].engine.user = "root"
        /\ proc[p].engine.organization = NULL
        /\ repoDown
        /\ \E r \in userPolicies :
              /\ r.user = "root"
              /\ policies[r.policy].effect = DENY
              /\ policies[r.policy].rules = {}

\* C7: a call of an organization admin (not a superuser) on an engine bound
\* to the admin's own organization returns True with no table read.
OrgAdminAlwaysAllowed ==
    \A p \in Procs :
        (/\ proc[p].engine.exists
         /\ ~UserTable[proc[p].engine.user].is_superuser
         /\ UserTable[proc[p].engine.user].is_org_admin
         /\ proc[p].engine.organization =
                UserTable[proc[p].engine.user].organization
         /\ CallOf(p).pc /= "idle")
            => /\ Returned(p)
               /\ CallOf(p).result = TRUE
               /\ CallOf(p).reads = {}
               /\ CallOf(p).raised = NULL

\* C7 witness: the admin was allowed in their own organization while a DENY
\* policy without rules is assigned to them there.
OrgAdminAllowedDespiteDeny ==
    \E p \in Procs :
        /\ Returned(p)
        /\ CallOf(p).result = TRUE
        /\ proc[p].engine.user = "admin"
        /\ proc[p].engine.organization = UserTable["admin"].organization
        /\ \E id \in DirectIds(proc[p].engine) :
              /\ policies[id].effect = DENY
              /\ policies[id].rules = {}

\* C10: once the audit write was attempted, failed or not, the call has
\* returned the decision computed before the write and has raised nothing.
AuditFailureAbsorbed ==
    \A p \in Procs :
        CallOf(p).audit /= "none"
            => /\ Returned(p)
               /\ CallOf(p).raised = NULL
               /\ CallOf(p).result = CallOf(p).decision

\* C10 witness: the audit write failed, no row was written and the call
\* returned True.
AllowedDespiteAuditFailure ==
    \E p \in Procs :
        /\ CallOf(p).audit = "failed"
        /\ Returned(p)
        /\ CallOf(p).result = TRUE
        /\ logs = <<>>

\* The ids of the applicable list of the call.
ApplicableIds(call) == {call.policies[i].id : i \in 1..Len(call.policies)}

\* The policy tables were read and filtered for the call of p.
Resolved(p) ==
    /\ proc[p].engine.exists
    /\ ~Bypassed(p)
    /\ CallOf(p).pc \in {"log", "done"}

\* C8 as claimed: a policy whose resource_type is set and differs from the
\* requested one, or whose actions is any list, the empty list included,
\* that does not hold the requested action, is not in the applicable list.
FilterDropsAnySetActions ==
    \A p \in Procs :
        Resolved(p) =>
            \A id \in PolicyIds :
                (\/ /\ Truthy(policies[id].resource_type)
                    /\ policies[id].resource_type /= CallOf(p).req.resource_type
                 \/ /\ ~policies[id].actions.isnone
                    /\ CallOf(p).req.action \notin policies[id].actions.items)
                    => id \notin ApplicableIds(CallOf(p))

\* C8 amended: a policy whose resource_type is a non-empty string that
\* differs from the requested one, or whose actions is a non-empty list
\* that does not hold the requested action, is not in the applicable list.
FilterDropsNonEmptyMismatch ==
    \A p \in Procs :
        Resolved(p) =>
            \A id \in PolicyIds :
                (\/ /\ policies[id].resource_type \notin {NULL, EMPTY}
                    /\ policies[id].resource_type /= CallOf(p).req.resource_type
                 \/ /\ ~policies[id].actions.isnone
                    /\ policies[id].actions.items /= {}
                    /\ CallOf(p).req.action \notin policies[id].actions.items)
                    => id \notin ApplicableIds(CallOf(p))

\* C8 witness: a directly assigned policy with actions = [read] was dropped
\* from the applicable list of a delete request.
ReadPolicyDroppedForDelete ==
    \E p \in Procs :
        /\ Resolved(p)
        /\ CallOf(p).req.action = "delete"
        /\ \E id \in DirectIds(proc[p].engine) :
              /\ policies[id].actions = ActionsOf({"read"})
              /\ policies[id].resource_type = NULL
              /\ id \notin ApplicableIds(CallOf(p))

\* C9: a policy that reaches the subject through a valid assignment and has
\* resource_type, actions and resource_id all unset is in the applicable
\* list, whatever the request.
NullFiltersMatchAll ==
    \A p \in Procs :
        Resolved(p) =>
            \A id \in DirectIds(proc[p].engine) \cup GroupIds(proc[p].engine) :
                (/\ policies[id].resource_type = NULL
                 /\ policies[id].actions.isnone
                 /\ policies[id].resource_id = NULL)
                    => id \in ApplicableIds(CallOf(p))

\* C9 witness: an unfiltered policy of a group is applicable to a delete
\* request on resource r2 of type leave.
UnfilteredPolicyApplies ==
    \E p \in Procs :
        /\ Resolved(p)
        /\ CallOf(p).req.action = "delete"
        /\ CallOf(p).req.resource_type = "leave"
        /\ CallOf(p).req.resource_id = "r2"
        /\ \E id \in GroupIds(proc[p].engine) :
              /\ policies[id].resource_type = NULL
              /\ policies[id].actions.isnone
              /\ policies[id].resource_id = NULL
              /\ id \in ApplicableIds(CallOf(p))

\* C11: a step of a non-bypassed call that reads the policy tables while
\* they fail ends the call with the error of the store: the call does not
\* go on with an empty policy set, computes no decision and writes no
\* PolicyLog row; a call that ended with an error has returned no value.
RepositoryFailureIsFatal ==
    /\ [](\A p \in Procs :
            CallOf(p).pc = "error"
                => /\ CallOf(p).raised = "DatabaseError"
                   /\ CallOf(p).audit = "none"
                   /\ CallOf(p).policies = <<>>
                   /\ CallOf(p).reason = NoReason
                   /\ CallOf(p).result = FALSE)
    /\ [][\A p \in Procs :
            (/\ repoDown
             /\ CallOf(p).pc \in {"user_policies", "group_policies"}
             /\ proc'[p].call /= proc[p].call)
                => /\ proc'[p].call.pc = "error"
                   /\ proc'[p].call.raised = "DatabaseError"
                   /\ logs' = logs]_vars

\* C11 witness: the UserPolicy rows were read, the store failed before the
\* GroupPolicy query, and the call of a logging engine ended with the error
\* and without a PolicyLog row.
FailedOnGroupPolicyRead ==
    \E p \in Procs :
        /\ CallOf(p).pc = "error"
        /\ CallOf(p).reads = {"UserPolicy"}
        /\ CallOf(p).user_policies /= {}
        /\ proc[p].engine.log_decisions
        /\ logs = <<>>

\* The last PolicyLog row records the call of p and the value it returned.
LastLogIsOf(p) ==
    /\ logs /= <<>>
    /\ logs[Len(logs)].user = proc[p].engine.user
    /\ logs[Len(logs)].organization = proc[p].engine.organization
    /\ logs[Len(logs)].resource_type = CallOf(p).req.resource_type
    /\ logs[Len(logs)].action = CallOf(p).req.action
    /\ logs[Len(logs)].result = CallOf(p).result

\* C12 as claimed: every call that returned a decision on a logging engine
\* whose audit write was not refused has its PolicyLog row, whether the
\* decision came from policy evaluation, from the superuser bypass or from
\* the organization-admin bypass.
OneAuditRecordPerCheck ==
    \A p \in Procs :
        (/\ proc[p].engine.exists
         /\ proc[p].engine.log_decisions
         /\ Returned(p)
         /\ CallOf(p).audit /= "failed")
            => LastLogIsOf(p)

\* C12, the part the code keeps: every call that returned a decision by
\* policy evaluation on a logging engine, the audit write not refused, has
\* its PolicyLog row with the decision and the evaluated policy ids.
EvaluatedCallsAudited ==
    \A p \in Procs :
        (/\ Evaluated(p)
         /\ proc[p].engine.log_decisions
         /\ CallOf(p).audit /= "failed")
            => /\ LastLogIsOf(p)
               /\ logs[Len(logs)] = PolicyLogRow(proc[p].engine, CallOf(p))

\* C12 witness: an organization admin was allowed by the bypass on a
\* logging engine and the PolicyLog table is still empty.
BypassLeftNoAuditRecord ==
    \E p \in Procs :
        /\ proc[p].engine.exists
        /\ proc[p].engine.user = "admin"
        /\ proc[p].engine.log_decisions
        /\ Returned(p)
        /\ CallOf(p).result = TRUE
        /\ CallOf(p).audit = "none"
        /\ logs = <<>>

\* Some active rule of the policy does not hold for the call.
SomeActiveRuleFails(pol, call) ==
    \E rule \in pol.rules :
        /\ rule.is_active
        /\ ~RuleHolds(rule, call.subject_attrs, call.req.resource_attrs,
                      call.environment_attrs)

\* The positions of the applicable list whose active rules all hold.
FullyHolding(call) ==
    {i \in 1..Len(call.policies) : ~SomeActiveRuleFails(call.policies[i], call)}

\* C13: a policy of the applicable list of which some active rule does not
\* hold is in neither partition: it is not named by the reason of the
\* decision, and the decision is the one of the policies whose active rules
\* all hold (True exactly when one of them is not a DENY and none is).
RuleConjunction ==
    \A p \in Procs :
        Resolved(p) =>
            /\ \A i \in 1..Len(CallOf(p).policies) :
                  SomeActiveRuleFails(CallOf(p).policies[i], CallOf(p))
                      => \A k \in 1..Len(CallOf(p).reason.names) :
                            CallOf(p).reason.names[k] /= CallOf(p).policies[i].name
            /\ CallOf(p).decision =
                  (/\ \E i \in FullyHolding(CallOf(p)) :
                        CallOf(p).policies[i].effect /= DENY
                   /\ \A i \in FullyHolding(CallOf(p)) :
                        CallOf(p).policies[i].effect /= DENY)

\* C13 witness: a DENY policy with two active rules, the department rule
\* holding and the owner rule not, was evaluated next to a matching ALLOW
\* policy, and the call returned True.
HalfMatchingDenyIgnored ==
    \E p \in Procs :
        /\ Evaluated(p)
        /\ CallOf(p).result = TRUE
        /\ \E i \in 1..Len(CallOf(p).policies) :
              /\ CallOf(p).policies[i].effect = DENY
              /\ CallOf(p).policies[i].rules = {DepartmentRule, OwnerRule}
              /\ RuleHolds(DepartmentRule, CallOf(p).subject_attrs,
                           CallOf(p).req.resource_attrs,
                           CallOf(p).environment_attrs)
              /\ ~RuleHolds(OwnerRule, CallOf(p).subject_attrs,
                            CallOf(p).req.resource_attrs,
                            CallOf(p).environment_attrs)

\* The lists that hold the policies of seq in any order and with any
\* priorities.
Reorderings(seq) ==
    {[i \in 1..Len(seq) |-> [seq[f[i]] EXCEPT !.priority = priority[i]]] :
        f \in Permutations(1..Len(seq)),
        priority \in [1..Len(seq) -> Priorities]}

\* C14: the decision of a call is the decision _evaluate_policies takes on
\* the same applicable policies in every other order and with every other
\* assignment of priorities.
PriorityNeverChangesOutcome ==
    \A p \in Procs :
        Resolved(p) =>
            \A other \in Reorderings(CallOf(p).policies) :
                Decide(CallOf(p), other).decision = CallOf(p).decision

\* C14 witness: a matching ALLOW of priority 2 was evaluated before a
\* matching DENY of priority 1, and the call returned False.
LowPriorityDenyOverrides ==
    \E p \in Procs :
        /\ Evaluated(p)
        /\ CallOf(p).result = FALSE
        /\ Len(CallOf(p).policies) = 2
        /\ CallOf(p).policies[1].effect = ALLOW
        /\ CallOf(p).policies[1].priority = 2
        /\ MatchesCall(CallOf(p).policies[1], CallOf(p))
        /\ CallOf(p).policies[2].effect = DENY
        /\ CallOf(p).policies[2].priority = 1
        /\ MatchesCall(CallOf(p).policies[2], CallOf(p))

\* C15: a step of a check_access call, whatever its outcome, leaves the
\* Policy (with its rules), UserPolicy and GroupPolicy tables as they were;
\* the PolicyLog table changes only in the audit step of a call, once per
\* call, by the append of the row of that call.
CheckAccessIsReadOnly ==
    [][/\ (\E p \in Procs : /\ proc'[p].call /= proc[p].call
                            /\ proc'[p].call.pc /= "idle")
            => UNCHANGED dbVars
       /\ logs' /= logs
            => \E p \in Procs :
                  /\ CallOf(p).pc = "log"
                  /\ proc'[p].call.pc = "done"
                  /\ logs' = Append(logs, PolicyLogRow(proc[p].engine,
                                                       CallOf(p)))
                  /\ UNCHANGED dbVars]_vars

\* C15 witness: a call that evaluated policies of both tables was denied
\* and audited: the PolicyLog table holds its row, and the tables still
\* hold the assignment and the group.
AuditedOverUntouchedStore ==
    \E p \in Procs :
        /\ Evaluated(p)
        /\ CallOf(p).audit = "written"
        /\ CallOf(p).result = FALSE
        /\ Len(CallOf(p).policies) = 2
        /\ Len(logs) = 1
        /\ userPolicies /= {}
        /\ groupPolicies /= {}

\* The PolicyLog table holds the row of the call of p.
HasLogOf(p) ==
    \E i \in 1..Len(logs) : logs[i] = PolicyLogRow(proc[p].engine, CallOf(p))

\* C16: over a store that does not change, every call of two callers whose
\* steps interleave returns the decision it takes alone on that store, and
\* the PolicyLog table holds the row of every call whose audit write
\* succeeded, one row each.
ConcurrentChecksIndependent ==
    /\ \A p \in PairProcs :
          /\ (proc[p].engine.exists /\ Returned(p))
                => CallOf(p).result =
                      IF Bypassed(p) THEN TRUE
                      ELSE DecisionOn(proc[p].engine, CallOf(p),
                                      userPolicies, groupPolicies)
          /\ CallOf(p).audit = "written" => HasLogOf(p)
    /\ (\A p \in PairProcs : CallOf(p).audit = "written")
          => \E i, j \in 1..Len(logs) :
                /\ i /= j
                /\ logs[i] = PolicyLogRow(proc["p1"].engine, CallOf("p1"))
                /\ logs[j] = PolicyLogRow(proc["p2"].engine, CallOf("p2"))

\* C16 witness: two calls of the same subject in different tenants both
\* returned, one allowed and one denied, and both rows are in the
\* PolicyLog table.
BothCallsAudited ==
    /\ \A p \in PairProcs : CallOf(p).audit = "written" /\ Returned(p)
    /\ proc["p1"].engine.user = proc["p2"].engine.user
    /\ proc["p1"].engine.organization /= proc["p2"].engine.organization
    /\ CallOf("p1").result /= CallOf("p2").result
    /\ Len(logs) = 2

\* The ids of a set of policy objects.
IdsOf(S) == {x.id : x \in S}

\* The decision deny-overrides-allow takes on a list for a call.
DenyOverrides(pols, call) ==
    /\ \E i \in 1..Len(pols) :
          pols[i].effect /= DENY /\ MatchesCall(pols[i], call)
    /\ \A i \in 1..Len(pols) :
          ~(pols[i].effect = DENY /\ MatchesCall(pols[i], call))

InstancePolicyOnlyForItsInstance ==
    \A p \in Procs :
        Resolved(p) =>
            \A id \in ApplicableIds(CallOf(p)) :
                Truthy(policies[id].resource_id)
                    => CallOf(p).req.resource_id = policies[id].resource_id

\* C18 amended: a policy whose resource_id is a non-empty string is in the
\* applicable list of a check that supplies a non-empty resource_id only if
\* the two are equal; a check that supplies none keeps the policy.
InstancePolicyDroppedForOtherInstance ==
    \A p \in Procs :
        Resolved(p) =>
            \A id \in PolicyIds :
                /\ (/\ policies[id].resource_id \notin {NULL, EMPTY}
                     /\ CallOf(p).req.resource_id \notin {NULL, EMPTY}
                     /\ policies[id].resource_id /= CallOf(p).req.resource_id)
                        => id \notin ApplicableIds(CallOf(p))
                /\ (/\ id \in DirectIds(proc[p].engine)
                                \cup GroupIds(proc[p].engine)
                     /\ policies[id].resource_type = NULL
                     /\ policies[id].actions.isnone
                     /\ CallOf(p).req.resource_id \in {NULL, EMPTY})
                        => id \in ApplicableIds(CallOf(p))

\* C18 witness: a directly assigned policy of resource r1 was dropped from
\* the applicable list of a check on resource r2.
PolicyOfR1DroppedForR2 ==
    \E p \in Procs :
        /\ Resolved(p)
        /\ CallOf(p).req.resource_id = "r2"
        /\ \E id \in DirectIds(proc[p].engine) :
              /\ policies[id].resource_id = "r1"
              /\ policies[id].resource_type = NULL
              /\ policies[id].actions.isnone
              /\ id \notin ApplicableIds(CallOf(p))

\* No GroupPolicy row of the table attaches the policy.
OnlyDirectlyAssigned(id) == \A g \in groupPolicies : id \notin g.policies

\* C19: a policy that no GroupPolicy row attaches is in the applicable list
\* of a call only if some UserPolicy row of the engine's user and
\* organization assigns it, is active and inside its validity window, and
\* the policy is active and inside its own validity window.
DirectAssignmentValidity ==
    \A p \in Procs :
        Resolved(p) =>
            \A id \in ApplicableIds(CallOf(p)) :
                OnlyDirectlyAssigned(id) =>
                    /\ policies[id].is_active
                    /\ policies[id].valid
                    /\ \E r \in userPolicies :
                          /\ r.user = proc[p].engine.user
                          /\ r.organization = proc[p].engine.organization
                          /\ r.policy = id
                          /\ r.is_active
                          /\ r.valid

\* C19 witness: an active policy inside its window is assigned to alice in
\* the engine's organization by an active row outside its validity window,
\* no group attaches it, and the call found no applicable policy.
ExpiredAssignmentNotEvaluated ==
    \E p \in Procs :
        /\ Resolved(p)
        /\ CallOf(p).policies = <<>>
        /\ CallOf(p).reason.kind = "no_applicable"
        /\ \E r \in userPolicies :
              /\ r.user = proc[p].engine.user
              /\ r.organization = proc[p].engine.organization
              /\ r.is_active
              /\ ~r.valid
              /\ policies[r.policy].is_active
              /\ policies[r.policy].valid
              /\ OnlyDirectlyAssigned(r.policy)

\* The value the directory holds now for the attribute a group type names;
\* None without a profile or for another group type.
CurrentValue(u, group_type) ==
    IF ~employee[u].exists THEN NULL
    ELSE CASE group_type = "department" -> employee[u].department
           [] group_type = "location" -> employee[u].location
           [] group_type = "job_level" -> employee[u].job_level
           [] group_type = "employment_type" -> employee[u].employment_type
           [] OTHER -> NULL

\* The group is active, of the engine's organization, and the subject's
\* value of its attribute is now its group_value.
Member(g, engine) ==
    /\ g.is_active
    /\ g.organization = engine.organization
    /\ g.group_type \in {"department", "location", "job_level",
                          "employment_type"}
    /\ CurrentValue(engine.user, g.group_type) = g.group_value

NoRepeats(seq) ==
    \A i, j \in 1..Len(seq) : i /= j => seq[i] /= seq[j]

\* C21: in every call each policy is evaluated at most once: no policy id
\* occurs twice in the applicable list or in the evaluated-policy list, and
\* no policy name occurs twice in the reason.
EvaluatedAtMostOnce ==
    \A p \in Procs :
        Resolved(p) =>
            /\ NoRepeats([i \in 1..Len(CallOf(p).policies) |->
                             CallOf(p).policies[i].id])
            /\ NoRepeats(CallOf(p).evaluated)
            /\ NoRepeats(CallOf(p).reason.names)

\* C21 witness: P1 is assigned to alice by two rows and attached to two
\* groups she belongs to, the object read through the assignment is not
\* the row the Policy table holds now, and P1 was evaluated once.
SharedPolicyEvaluatedOnce ==
    \E p \in Procs :
        /\ Resolved(p)
        /\ CallOf(p).evaluated = <<"P1">>
        /\ CallOf(p).reason.names = <<"P1">>
        /\ Cardinality({r \in userPolicies : r.policy = "P1"}) = 2
        /\ Cardinality({g \in groupPolicies : "P1" \in g.policies}) = 2
        /\ \E x \in CallOf(p).user_policies :
              /\ x.id = "P1"
              /\ x = CallOf(p).policies[1]
              /\ x /= policies["P1"]

\* C22: the applicable list of a call is ordered by priority, highest
\* first, and holds each policy that reaches the subject exactly once (no
\* policy of this specification carries a filter); the evaluated-policy id
\* list is the list of its ids in the same order.
OrderedByPriority ==
    \A p \in Procs :
        Resolved(p) =>
            /\ \A i, j \in 1..Len(CallOf(p).policies) :
                  i < j => CallOf(p).policies[i].priority
                              >= CallOf(p).policies[j].priority
            /\ ApplicableIds(CallOf(p))
                  = DirectIds(proc[p].engine) \cup GroupIds(proc[p].engine)
            /\ Len(CallOf(p).policies) = Cardinality(ApplicableIds(CallOf(p)))
            /\ \A i \in 1..Len(CallOf(p).policies) :
                  CallOf(p).policies[i] = policies[CallOf(p).policies[i].id]
            /\ CallOf(p).evaluated
                  = [i \in 1..Len(CallOf(p).policies) |-> CallOf(p).policies[i].id]

\* C22 witness: P2 of priority 2 was evaluated before P1 of priority 1.
HigherPriorityFirst ==
    \E p \in Procs :
        /\ Resolved(p)
        /\ CallOf(p).evaluated = <<"P2", "P1">>
        /\ policies["P2"].priority = 2
        /\ policies["P1"].priority = 1

\* The names of the policies of the applicable list of a call that match
\* the call and whose effect is (deny = TRUE) or is not (deny = FALSE) DENY.
MatchedNames(call, deny) ==
    {call.policies[i].name : i \in
        {j \in 1..Len(call.policies) :
            /\ MatchesCall(call.policies[j], call)
            /\ (call.policies[j].effect = DENY) = deny}}

NamedBy(reason) == {reason.names[i] : i \in 1..Len(reason.names)}

\* C23: the reason of an evaluated decision is "no applicable policies"
\* exactly when the applicable list was empty and "no matching rules"
\* exactly when it was not and no policy matched; a "denied by" reason goes
\* with a DENY decision and names every matched DENY policy and no other,
\* an "allowed by" reason goes with an ALLOW decision taken with no DENY
\* match and names every matched ALLOW policy and no other.
ReasonNamesMatchedPolicies ==
    \A p \in Procs :
        Resolved(p) =>
            LET call == CallOf(p)
                denies == MatchedNames(call, TRUE)
                allows == MatchedNames(call, FALSE)
            IN  /\ call.reason.kind
                      \in {"no_applicable", "no_matching", "denied_by", "allowed_by"}
                /\ (call.reason.kind = "no_applicable") = (call.policies = <<>>)
                /\ (call.reason.kind = "no_matching")
                      = (call.policies /= <<>> /\ denies = {} /\ allows = {})
                /\ (call.reason.kind = "denied_by") = (denies /= {})
                /\ (call.reason.kind = "allowed_by")
                      = (denies = {} /\ allows /= {})
                /\ call.reason.kind = "denied_by" =>
                      /\ ~call.decision
                      /\ NamedBy(call.reason) = denies
                      /\ Len(call.reason.names) = Cardinality(denies)
                /\ call.reason.kind = "allowed_by" =>
                      /\ call.decision
                      /\ NamedBy(call.reason) = allows
                      /\ Len(call.reason.names) = Cardinality(allows)
                /\ call.reason.kind \in {"no_applicable", "no_matching"} =>
                      /\ ~call.decision
                      /\ call.reason.names = <<>>

\* C23 witness: a DENY policy and an ALLOW policy both matched, and the
\* reason names the DENY policy alone.
ReasonNamesOnlyTheDeny ==
    \E p \in Procs :
        /\ Resolved(p)
        /\ MatchedNames(CallOf(p), TRUE) = {"P2"}
        /\ MatchedNames(CallOf(p), FALSE) = {"P1"}
        /\ CallOf(p).reason = [kind |-> "denied_by", names |-> <<"P2">>]

\* The call of p returned an evaluated decision and its audit row is the
\* last row of the PolicyLog table.
AuditWritten(p) ==
    /\ Resolved(p)
    /\ CallOf(p).pc = "done"
    /\ CallOf(p).audit = "written"
    /\ logs /= <<>>

Listed(seq) == {seq[i] : i \in 1..Len(seq)}

\* The ids of the policies of the applicable list that matched the call.
MatchedIds(call) ==
    {call.policies[i].id : i \in
        {j \in 1..Len(call.policies) : MatchesCall(call.policies[j], call)}}

\* C24 as claimed: the audit row of a check holds the returned boolean, the
\* computed reason, and as its policy-id list exactly the ids of the
\* policies that matched in that check.
AuditListsMatchedPolicies ==
    \A p \in Procs :
        AuditWritten(p) =>
            /\ logs[Len(logs)].result = CallOf(p).result
            /\ logs[Len(logs)].decision_reason = CallOf(p).reason
            /\ Listed(logs[Len(logs)].policies_evaluated)
                  = MatchedIds(CallOf(p))

\* C24 amended: the audit row of a check holds the returned boolean, the
\* computed reason, and as its policy-id list the ids of all the policies
\* of the applicable list, matched or not, in the order of evaluation.
AuditListsEvaluatedPolicies ==
    \A p \in Procs :
        AuditWritten(p) =>
            /\ logs[Len(logs)].result = CallOf(p).result
            /\ logs[Len(logs)].result = CallOf(p).decision
            /\ logs[Len(logs)].decision_reason = CallOf(p).reason
            /\ logs[Len(logs)].policies_evaluated
                  = [i \in 1..Len(CallOf(p).policies) |-> CallOf(p).policies[i].id]

\* C24 witness: the audit row of a denied check lists a policy that did not
\* match it.
AuditListsUnmatchedPolicy ==
    \E p \in Procs :
        /\ AuditWritten(p)
        /\ ~CallOf(p).result
        /\ \E id \in Listed(logs[Len(logs)].policies_evaluated) :
              id \notin MatchedIds(CallOf(p))

\* C25 as claimed: every policy in the applicable list of a check belongs to
\* the tenant the engine is bound to.
EvaluatedPoliciesOfOwnTenant ==
    \A p \in Procs :
        Resolved(p) =>
            \A i \in 1..Len(CallOf(p).policies) :
                CallOf(p).policies[i].organization = proc[p].engine.organization

\* C25 witness: an engine bound to orgA evaluated a policy of orgB and
\* allowed the request by it.
PolicyOfOtherTenantEvaluated ==
    \E p \in Procs :
        /\ Resolved(p)
        /\ proc[p].engine.organization = "orgA"
        /\ CallOf(p).evaluated = <<"P2">>
        /\ CallOf(p).policies[1].organization = "orgB"
        /\ CallOf(p).decision

\* C26 as claimed: no policy of the applicable list of a check is inactive
\* or outside its validity window, whichever way it reached the subject.
ApplicablePoliciesActiveAndValid ==
    \A p \in Procs :
        Resolved(p) =>
            \A i \in 1..Len(CallOf(p).policies) :
                /\ CallOf(p).policies[i].is_active
                /\ CallOf(p).policies[i].valid

\* C26 witness: a policy outside its validity window, assigned to the
\* subject by no UserPolicy row, reached the applicable list through a
\* matching group and decided the check.
ExpiredPolicyAppliedThroughGroup ==
    \E p \in Procs :
        /\ Resolved(p)
        /\ userPolicies = {}
        /\ CallOf(p).evaluated = <<"P1">>
        /\ ~CallOf(p).policies[1].valid
        /\ CallOf(p).decision

\* The engine of p is bound to a tenant other than the organization of its
\* user, who is an organization admin and no superuser.
AdminOutOfScope(p) ==
    /\ proc[p].engine.exists
    /\ ~UserTable[proc[p].engine.user].is_superuser
    /\ UserTable[proc[p].engine.user].is_org_admin
    /\ proc[p].engine.organization /= UserTable[proc[p].engine.user].organization

\* C27 as claimed: a check of an organization admin on an engine bound to
\* another tenant returns a decision reached by policy evaluation: the
\* policy tables were read for it.
AdminBypassOnlyInOwnTenant ==
    \A p \in Procs :
        (AdminOutOfScope(p) /\ Returned(p)) =>
            CallOf(p).reads = {"UserPolicy", "GroupPolicy"}

\* C27 witness: the admin of orgA was allowed by an engine bound to orgB
\* that read no policy table.
AdminBypassedInOtherTenant ==
    \E p \in Procs :
        /\ AdminOutOfScope(p)
        /\ proc[p].engine.organization = "orgB"
        /\ Returned(p)
        /\ CallOf(p).result = TRUE
        /\ CallOf(p).reads = {}

EngineAsConstructed(p) ==
    [proc[p].engine EXCEPT !.organization = proc[p].ctor.organization]

ContributesBy(g, id, engine) ==
    /\ id \in g.policies
    /\ g.is_active
    /\ g.organization = engine.organization
    /\ CurrentValue(engine.user, g.group_type) /= NULL
    /\ CurrentValue(engine.user, g.group_type) = g.group_value

\* C30: no step of a check raises on a subject without employee profile or
\* with an absent department, location, designation or employment type;
\* the snapshot holds no value for what is absent; and the GroupPolicy step
\* takes no policy from a group of a type for which the subject has no
\* value: a policy in the applicable list is assigned directly or attached
\* to a group for whose type the subject has a value, the group_value.
AbsentEmploymentDataFailsClosed ==
    /\ [](\A p \in Procs :
            /\ CallOf(p).raised = NULL
            /\ CallOf(p).pc /= "error")
    /\ [][\A p \in Procs :
            /\ (CallOf(p).pc \notin {"user_policies", "group_policies"}
                /\ proc'[p].call.pc = "user_policies") =>
                  \A t \in {"department", "location", "job_level",
                            "employment_type"} :
                      CurrentValue(proc[p].engine.user, t) = NULL =>
                          DictGet(proc'[p].call.subject_attrs[t]) = NULL
            /\ (CallOf(p).pc = "group_policies"
                /\ proc'[p].call.pc \in {"log", "done"}) =>
                  \A id \in ApplicableIds(proc'[p].call) :
                      \/ id \in IdsOf(CallOf(p).user_policies)
                      \/ \E g \in groupPolicies :
                            ContributesBy(g, id, proc[p].engine)]_vars

\* C30 witness: a subject without employee profile was checked while an
\* active group of its organization attached the active policy P2 to
\* full-time staff, and P2 was not evaluated.
NoProfileNoGroupPolicy ==
    \E p \in Procs :
        /\ Resolved(p)
        /\ CallOf(p).group_attrs.employment_type = MISSING
        /\ policies["P2"].is_active
        /\ \E g \in groupPolicies :
              /\ g.group_type = "employment_type"
              /\ g.group_value = "full_time"
              /\ g.is_active
              /\ g.organization = proc[p].engine.organization
              /\ "P2" \in g.policies
        /\ "P2" \notin ApplicableIds(CallOf(p))

====
